---------------------------- MODULE Spec2Model ----------------------------
(***************************************************************************)
(* A model of the DES tool: the key schedule (src/src/utils/key.ts), the   *)
(* block cipher (src/src/utils/des.ts) and the form that calls them        *)
(* (src/src/app/page.tsx and its single-user predecessor).                 *)
(*                                                                         *)
(* Strings.  A JavaScript string that crosses the interface (a key, a      *)
(* plaintext, a hex ciphertext, a decrypted text) is a sequence of UTF-16  *)
(* code units, each a number.  A string of binary digits inside the cipher *)
(* is a sequence of one-character strings: "0" and "1", and also the       *)
(* characters that the code lets into such a string ("N" and "a" of "NaN", *)
(* the letters of "undefined").  The value undefined, where the code can   *)
(* read it out of a string or an array, is the marker UNDEFINED.           *)
(*                                                                         *)
(* Failure.  A function that can throw returns an outcome: Return(v) or    *)
(* Throw(name, message), name being the error's class.                     *)
(*                                                                         *)
(* The form.  page.tsx keeps one record of state for each of its two users  *)
(* and uses the key that handleMergeKeys makes of their keys; its          *)
(* predecessor, the form of one user, keeps the same state in variables of *)
(* its own and uses the key the user types.  Here it is the record of the  *)
(* one user "a".                                                           *)
(*                                                                         *)
(* Calls.  TLC may evaluate the argument of an operator, and the           *)
(* definition of a LET, anew at every use.  Call1, Call2, ... apply an     *)
(* operator to the values of its arguments, as a JavaScript call does, and *)
(* Let(v, LAMBDA x : e) is e with x the value of v.                        *)
(***************************************************************************)
EXTENDS Integers, Sequences, FiniteSets, TLC

VARIABLES
    argInput,  \* the text the caller has (a plaintext or a hex ciphertext)
    argKey,    \* the key the caller has
    calls,     \* the calls made so far, in order: function, arguments, outcome
    console    \* the lines written with console.log so far

coreVars == << argInput, argKey, calls, console >>

VARIABLES
    app,       \* the form on the screen: "single" (one user), "pair" (two users), "none"
    userData,  \* the form's state, user by user
    error,     \* the form's error message
    convert,   \* what the last handler did if it was handleConvert
    readers    \* the FileReaders that are reading, in the order they were started

uiVars == << app, userData, error, convert, readers >>

vars == << coreVars, uiVars >>

(***************************************************************************)
(* ./constants (the file is missing from the sources): the standard DES    *)
(* tables the specification names.                                         *)
(***************************************************************************)
IP ==
    << 58, 50, 42, 34, 26, 18, 10, 2, 60, 52, 44, 36, 28, 20, 12, 4,
       62, 54, 46, 38, 30, 22, 14, 6, 64, 56, 48, 40, 32, 24, 16, 8,
       57, 49, 41, 33, 25, 17, 9, 1, 59, 51, 43, 35, 27, 19, 11, 3,
       61, 53, 45, 37, 29, 21, 13, 5, 63, 55, 47, 39, 31, 23, 15, 7 >>

IP_INVERSE ==
    << 40, 8, 48, 16, 56, 24, 64, 32, 39, 7, 47, 15, 55, 23, 63, 31,
       38, 6, 46, 14, 54, 22, 62, 30, 37, 5, 45, 13, 53, 21, 61, 29,
       36, 4, 44, 12, 52, 20, 60, 28, 35, 3, 43, 11, 51, 19, 59, 27,
       34, 2, 42, 10, 50, 18, 58, 26, 33, 1, 41, 9, 49, 17, 57, 25 >>

E_SELECTION ==
    << 32, 1, 2, 3, 4, 5, 4, 5, 6, 7, 8, 9,
       8, 9, 10, 11, 12, 13, 12, 13, 14, 15, 16, 17,
       16, 17, 18, 19, 20, 21, 20, 21, 22, 23, 24, 25,
       24, 25, 26, 27, 28, 29, 28, 29, 30, 31, 32, 1 >>

P_TRANSFORM ==
    << 16, 7, 20, 21, 29, 12, 28, 17, 1, 15, 23, 26, 5, 18, 31, 10,
       2, 8, 24, 14, 32, 27, 3, 9, 19, 13, 30, 6, 22, 11, 4, 25 >>

PC_1 ==
    << 57, 49, 41, 33, 25, 17, 9, 1, 58, 50, 42, 34, 26, 18,
       10, 2, 59, 51, 43, 35, 27, 19, 11, 3, 60, 52, 44, 36,
       63, 55, 47, 39, 31, 23, 15, 7, 62, 54, 46, 38, 30, 22,
       14, 6, 61, 53, 45, 37, 29, 21, 13, 5, 28, 20, 12, 4 >>

PC_2 ==
    << 14, 17, 11, 24, 1, 5, 3, 28, 15, 6, 21, 10,
       23, 19, 12, 4, 26, 8, 16, 7, 27, 20, 13, 2,
       41, 52, 31, 37, 47, 55, 30, 40, 51, 45, 33, 48,
       44, 49, 39, 56, 34, 53, 46, 42, 50, 36, 29, 32 >>

KEY_SHIFT ==
    << 1, 1, 2, 2, 2, 2, 2, 2, 1, 2, 2, 2, 2, 2, 2, 1 >>

S_BOX ==
    << << <<14, 4, 13, 1, 2, 15, 11, 8, 3, 10, 6, 12, 5, 9, 0, 7>>,
          <<0, 15, 7, 4, 14, 2, 13, 1, 10, 6, 12, 11, 9, 5, 3, 8>>,
          <<4, 1, 14, 8, 13, 6, 2, 11, 15, 12, 9, 7, 3, 10, 5, 0>>,
          <<15, 12, 8, 2, 4, 9, 1, 7, 5, 11, 3, 14, 10, 0, 6, 13>> >>,
       << <<15, 1, 8, 14, 6, 11, 3, 4, 9, 7, 2, 13, 12, 0, 5, 10>>,
          <<3, 13, 4, 7, 15, 2, 8, 14, 12, 0, 1, 10, 6, 9, 11, 5>>,
          <<0, 14, 7, 11, 10, 4, 13, 1, 5, 8, 12, 6, 9, 3, 2, 15>>,
          <<13, 8, 10, 1, 3, 15, 4, 2, 11, 6, 7, 12, 0, 5, 14, 9>> >>,
       << <<10, 0, 9, 14, 6, 3, 15, 5, 1, 13, 12, 7, 11, 4, 2, 8>>,
          <<13, 7, 0, 9, 3, 4, 6, 10, 2, 8, 5, 14, 12, 11, 15, 1>>,
          <<13, 6, 4, 9, 8, 15, 3, 0, 11, 1, 2, 12, 5, 10, 14, 7>>,
          <<1, 10, 13, 0, 6, 9, 8, 7, 4, 15, 14, 3, 11, 5, 2, 12>> >>,
       << <<7, 13, 14, 3, 0, 6, 9, 10, 1, 2, 8, 5, 11, 12, 4, 15>>,
          <<13, 8, 11, 5, 6, 15, 0, 3, 4, 7, 2, 12, 1, 10, 14, 9>>,
          <<10, 6, 9, 0, 12, 11, 7, 13, 15, 1, 3, 14, 5, 2, 8, 4>>,
          <<3, 15, 0, 6, 10, 1, 13, 8, 9, 4, 5, 11, 12, 7, 2, 14>> >>,
       << <<2, 12, 4, 1, 7, 10, 11, 6, 8, 5, 3, 15, 13, 0, 14, 9>>,
          <<14, 11, 2, 12, 4, 7, 13, 1, 5, 0, 15, 10, 3, 9, 8, 6>>,
          <<4, 2, 1, 11, 10, 13, 7, 8, 15, 9, 12, 5, 6, 3, 0, 14>>,
          <<11, 8, 12, 7, 1, 14, 2, 13, 6, 15, 0, 9, 10, 4, 5, 3>> >>,
       << <<12, 1, 10, 15, 9, 2, 6, 8, 0, 13, 3, 4, 14, 7, 5, 11>>,
          <<10, 15, 4, 2, 7, 12, 9, 5, 6, 1, 13, 14, 0, 11, 3, 8>>,
          <<9, 14, 15, 5, 2, 8, 12, 3, 7, 0, 4, 10, 1, 13, 11, 6>>,
          <<4, 3, 2, 12, 9, 5, 15, 10, 11, 14, 1, 7, 6, 0, 8, 13>> >>,
       << <<4, 11, 2, 14, 15, 0, 8, 13, 3, 12, 9, 7, 5, 10, 6, 1>>,
          <<13, 0, 11, 7, 4, 9, 1, 10, 14, 3, 5, 12, 2, 15, 8, 6>>,
          <<1, 4, 11, 13, 12, 3, 7, 14, 10, 15, 6, 8, 0, 5, 9, 2>>,
          <<6, 11, 13, 8, 1, 4, 10, 7, 9, 5, 0, 15, 14, 2, 3, 12>> >>,
       << <<13, 2, 8, 4, 6, 15, 11, 1, 10, 9, 3, 14, 5, 0, 12, 7>>,
          <<1, 15, 13, 8, 10, 3, 7, 4, 12, 5, 6, 11, 0, 14, 9, 2>>,
          <<7, 11, 4, 1, 9, 12, 14, 2, 0, 6, 10, 13, 15, 3, 5, 8>>,
          <<2, 1, 14, 7, 4, 10, 8, 13, 15, 12, 9, 0, 3, 5, 6, 11>> >> >>

(***************************************************************************)
(* Calls by value.                                                         *)
(***************************************************************************)
Let(v, F(_)) == CHOOSE r \in {F(x) : x \in {v}} : TRUE

Call1(F(_), a) == CHOOSE r \in {F(x) : x \in {a}} : TRUE

Call2(F(_, _), a, b) == CHOOSE r \in {F(x, y) : x \in {a}, y \in {b}} : TRUE

Call3(F(_, _, _), a, b, c) ==
    CHOOSE r \in {F(x, y, z) : x \in {a}, y \in {b}, z \in {c}} : TRUE

(***************************************************************************)
(* JavaScript values and string primitives.                                *)
(***************************************************************************)
UNDEFINED == "undefined"

\* The text of undefined when += appends it to a string.
UndefinedText == << "u", "n", "d", "e", "f", "i", "n", "e", "d" >>

\* The text of NaN.toString(2).
NaNText == << "N", "a", "N" >>

Return(v) == [kind |-> "return", val |-> v, name |-> "", message |-> ""]

Throw(name, message) == [kind |-> "throw", val |-> << >>, name |-> name, message |-> message]

Min(a, b) == IF a <= b THEN a ELSE b

Max(a, b) == IF a >= b THEN a ELSE b

\* Math.ceil(n / d) * d
CeilTo(n, d) == ((n + d - 1) \div d) * d

\* s[i] for a 0-based index i: undefined outside the string.
CharAt(s, i) == IF i >= 0 /\ i < Len(s) THEN s[i + 1] ELSE UNDEFINED

\* s.slice(from, to) for 0 <= from, 0 <= to.
Slice(s, from, to) == SubSeq(s, from + 1, Min(to, Len(s)))

\* s.slice(from) for 0 <= from.
SliceFrom(s, from) == SubSeq(s, from + 1, Len(s))

\* s.slice(-n) for n > 0.
SliceLast(s, n) == SubSeq(s, Max(Len(s) - n, 0) + 1, Len(s))

Repeat(c, n) == [i \in 1..n |-> c]

\* s.padEnd(n, c) and s.padStart(n, c) for a one-character c.
PadEnd(s, n, c) == IF Len(s) >= n THEN s ELSE s \o Repeat(c, n - Len(s))

PadStart(s, n, c) == IF Len(s) >= n THEN s ELSE Repeat(c, n - Len(s)) \o s

\* The concatenation of the strings ss[lo], ..., ss[hi].
RECURSIVE ConcatRange(_, _, _)
ConcatRange(ss, lo, hi) ==
    IF lo > hi THEN << >>
    ELSE IF lo = hi THEN ss[lo]
    ELSE Call3(ConcatRange, ss, lo, (lo + hi) \div 2)
            \o Call3(ConcatRange, ss, (lo + hi) \div 2 + 1, hi)

\* The concatenation of a sequence of strings.
Concat(ss) == Call3(ConcatRange, ss, 1, Len(ss))

\* n.toString(2) for a number n >= 0.
RECURSIVE ToBinary(_)
ToBinary(n) ==
    IF n < 2 THEN << IF n = 1 THEN "1" ELSE "0" >>
    ELSE ToBinary(n \div 2) \o << IF n % 2 = 1 THEN "1" ELSE "0" >>

NaN == -1

\* The number of binary digits s starts with, counted from position i.
RECURSIVE BinaryPrefixLen(_, _)
BinaryPrefixLen(s, i) ==
    IF i > Len(s) \/ s[i] \notin {"0", "1"} THEN i - 1 ELSE Call2(BinaryPrefixLen, s, i + 1)

\* The value of the first n characters of s, binary digits, most significant first.
RECURSIVE BinaryValue(_, _)
BinaryValue(s, n) ==
    IF n = 0 THEN 0 ELSE 2 * Call2(BinaryValue, s, n - 1) + (IF s[n] = "1" THEN 1 ELSE 0)

\* parseInt(s, 2): the value of the leading binary digits, NaN when there is none.
ParseInt2(s) ==
    Let(Call2(BinaryPrefixLen, s, 1), LAMBDA n : IF n = 0 THEN NaN ELSE Call2(BinaryValue, s, n))

(***************************************************************************)
(* key.ts                                                                  *)
(***************************************************************************)
calculateParityBit(sevenBits) ==
    LET countOfOnes == Cardinality({i \in 1..Len(sevenBits) : sevenBits[i] = "1"})
    IN  IF countOfOnes % 2 = 0 THEN "1" ELSE "0"

\* The 8 bits of one character of the key: its 7 low bits and the parity bit.
KeyCharBits(charCode) ==
    Let(SliceLast(PadStart(Call1(ToBinary, charCode), 8, "0"), 7),
        LAMBDA sevenBits : sevenBits \o << Call1(calculateParityBit, sevenBits) >>)

\* generate64BitKey, were it to look at the first character only.
generate64BitKey_FirstOnly(input) ==
    IF Len(input) # 8 THEN Throw("Error", "Input must be exactly 8 characters long")
    ELSE IF input[1] > 127
         THEN Throw("Error", "Only ASCII characters are allowed")
         ELSE Return(Concat([i \in 1..Len(input) |-> Call1(KeyCharBits, input[i])]))

generate64BitKey(input) ==
    IF Len(input) # 8 THEN Throw("Error", "Input must be exactly 8 characters long")
    ELSE IF \E i \in 1..Len(input) : input[i] > 127
         THEN Throw("Error", "Only ASCII characters are allowed")
         ELSE Return(Concat([i \in 1..Len(input) |-> Call1(KeyCharBits, input[i])]))

xorBinaryKeys(key1, key2) ==
    [i \in 1..Len(key1) |-> IF CharAt(key1, i - 1) = CharAt(key2, i - 1) THEN "0" ELSE "1"]

\* The code unit of the character '0', with which processKey pads the key.
PadChar == 48

\* processKey's second loop, were it to stop before the first step.
XorAll_FirstOnly(finalKey, keys, i) == finalKey

\* processKey's second loop from keys[i] on: finalKey ^ keys[i] ^ keys[i + 1] ^ ...
RECURSIVE XorAll(_, _, _)
XorAll(finalKey, keys, i) ==
    IF i > Len(keys) THEN finalKey
    ELSE Call3(XorAll, Call2(xorBinaryKeys, finalKey, keys[i]), keys, i + 1)

\* processKey, were it to take the key of no chunk for 64 zero bits.
processKey_ZeroKey(input) ==
    Let(PadEnd(input, CeilTo(Len(input), 8), PadChar), LAMBDA paddedInput :
    Let([c \in 1..(Len(paddedInput) \div 8) |->
            Call1(generate64BitKey, Slice(paddedInput, 8 * (c - 1), 8 * c))], LAMBDA chunks :
        LET thrown == {c \in 1..Len(chunks) : chunks[c].kind = "throw"}
            keys == [c \in 1..Len(chunks) |-> chunks[c].val]
        IN  IF thrown # {} THEN chunks[CHOOSE c \in thrown : \A d \in thrown : c <= d]
            ELSE IF chunks = << >> THEN Return(Repeat("0", 64))
                 ELSE Return(Call3(XorAll, keys[1], keys, 2))))

\* The outcome of processKey: the throw of the first chunk generate64BitKey
\* rejects, or undefined (kind "undefined") when there is no chunk, keys[0] of an
\* empty array, or the 64-bit key.
processKey(input) ==
    Let(PadEnd(input, CeilTo(Len(input), 8), PadChar), LAMBDA paddedInput :
    Let([c \in 1..(Len(paddedInput) \div 8) |->
            Call1(generate64BitKey, Slice(paddedInput, 8 * (c - 1), 8 * c))], LAMBDA chunks :
        LET thrown == {c \in 1..Len(chunks) : chunks[c].kind = "throw"}
            keys == [c \in 1..Len(chunks) |-> chunks[c].val]
        IN  IF thrown # {} THEN chunks[CHOOSE c \in thrown : \A d \in thrown : c <= d]
            ELSE IF chunks = << >> THEN [Return(<< >>) EXCEPT !.kind = "undefined"]
                 ELSE Return(Call3(XorAll, keys[1], keys, 2))))

\* The characters rangeBits appends, one output position after the other.
rangeBits(binaryString, permutationArray, arrayLength) ==
    IF \A i \in 1..arrayLength : permutationArray[i] <= Len(binaryString)
    THEN [i \in 1..arrayLength |-> binaryString[permutationArray[i]]]
    ELSE Concat([i \in 1..arrayLength |->
                    IF permutationArray[i] <= Len(binaryString)
                    THEN << binaryString[permutationArray[i]] >>
                    ELSE UndefinedText])

leftShift(binaryString, shiftCount) ==
    SliceFrom(binaryString, shiftCount) \o Slice(binaryString, 0, shiftCount)

\* The loop of generateSubKeys, were every round to shift the halves it was given
\* at the start and not those of the round before.
SubKeysFrom_FromStart(left28bit, right28bit, i) ==
    [r \in 1..16 |->
        Call3(rangeBits, Call2(leftShift, left28bit, KEY_SHIFT[r])
                            \o Call2(leftShift, right28bit, KEY_SHIFT[r]), PC_2, 48)]

\* The loop of generateSubKeys from round i (1-based) on, shifting the halves the
\* rounds before left: rotations add up from round to round.
RECURSIVE SubKeysFrom(_, _, _)
SubKeysFrom(left28bit, right28bit, i) ==
    IF i > 16 THEN << >>
    ELSE Call2(LAMBDA left, right :
                  << Call3(rangeBits, left \o right, PC_2, 48) >>
                      \o Call3(SubKeysFrom, left, right, i + 1),
               Call2(leftShift, left28bit, KEY_SHIFT[i]),
               Call2(leftShift, right28bit, KEY_SHIFT[i]))

\* generateSubKeys, were subKeys an array of the module that every call pushes to.
generateSubKeys_SharedArray(key56bit) ==
    Concat([i \in 1..Len(console) |->
               IF console[i][1] = "Generated subkeys:" THEN console[i][2] ELSE << >>])
        \o Call3(SubKeysFrom, Slice(key56bit, 0, 28), Slice(key56bit, 28, 56), 1)

generateSubKeys(key56bit) ==
    Call3(SubKeysFrom, Slice(key56bit, 0, 28), Slice(key56bit, 28, 56), 1)

\* The outcome of outPutKeys with the lines it writes to the console.  rangeBits
\* indexes final64BitKey, which throws when it is undefined.
outPutKeys(input) ==
    Let(Call1(processKey, input), LAMBDA final64BitKey :
        IF final64BitKey.kind = "throw" THEN final64BitKey @@ [log |-> << >>]
        ELSE IF final64BitKey.kind = "undefined"
             THEN Throw("TypeError", "Cannot read properties of undefined")
                    @@ [log |-> << << "final64BitKey: ", UNDEFINED >> >>]
             ELSE Let(Call3(rangeBits, final64BitKey.val, PC_1, 56), LAMBDA afterPC1 :
                  Let(Call1(generateSubKeys, afterPC1), LAMBDA subKeys :
                      Return(subKeys)
                        @@ [log |-> << << "final64BitKey: ", final64BitKey.val >>,
                                       << "After PC-1:", afterPC1 >>,
                                       << "Generated subkeys:", subKeys >> >>])))

getOutPutKeys(key) == Call1(outPutKeys, key)

(***************************************************************************)
(* TextEncoder and TextDecoder (the platform's UTF-8 codec, as des.ts      *)
(* constructs them: no options, so the decoder is not fatal and drops a    *)
(* leading byte order mark).                                               *)
(***************************************************************************)
IsHighSurrogate(c) == c >= 55296 /\ c <= 56319

IsLowSurrogate(c) == c >= 56320 /\ c <= 57343

\* The UTF-8 bytes of one code point.
Utf8Bytes(cp) ==
    IF cp < 128 THEN << cp >>
    ELSE IF cp < 2048 THEN << 192 + (cp \div 64), 128 + (cp % 64) >>
    ELSE IF cp < 65536
         THEN << 224 + (cp \div 4096), 128 + ((cp \div 64) % 64), 128 + (cp % 64) >>
         ELSE << 240 + (cp \div 262144), 128 + ((cp \div 4096) % 64),
                 128 + ((cp \div 64) % 64), 128 + (cp % 64) >>

\* The encoder's loop from code unit i on: a surrogate pair is one code point,
\* a lone surrogate is encoded as U+FFFD.
RECURSIVE EncodeFrom(_, _)
EncodeFrom(s, i) ==
    IF i > Len(s) THEN << >>
    ELSE IF IsHighSurrogate(s[i]) /\ i < Len(s) /\ IsLowSurrogate(s[i + 1])
         THEN Utf8Bytes(65536 + (s[i] - 55296) * 1024 + (s[i + 1] - 56320))
                \o Call2(EncodeFrom, s, i + 2)
         ELSE IF IsHighSurrogate(s[i]) \/ IsLowSurrogate(s[i])
              THEN Utf8Bytes(65533) \o Call2(EncodeFrom, s, i + 1)
              ELSE Utf8Bytes(s[i]) \o Call2(EncodeFrom, s, i + 1)

\* new TextEncoder().encode(s)
TextEncode(s) == Call2(EncodeFrom, s, 1)

\* The UTF-16 code units of one code point.
CodeUnits(cp) ==
    IF cp < 65536 THEN << cp >>
    ELSE << 55296 + ((cp - 65536) \div 1024), 56320 + ((cp - 65536) % 1024) >>

\* The decoder between two characters.
Utf8Start == [cp |-> 0, needed |-> 0, seen |-> 0, lower |-> 128, upper |-> 191]

\* The decoder after the lead byte b of a sequence of 1 + needed bytes.
Utf8Lead(b, bits, needed, lower, upper) ==
    [cp |-> b % bits, needed |-> needed, seen |-> 0, lower |-> lower, upper |-> upper]

\* The UTF-8 decoder's loop from byte i on: d.cp, d.needed, d.seen, d.lower and
\* d.upper are the code point under construction, the bytes it needs and has
\* seen, and the bounds of its next byte.  A malformed sequence decodes to U+FFFD
\* and its offending byte is read again.
RECURSIVE Utf8Decode(_, _, _)
Utf8Decode(bytes, i, d) ==
    IF i > Len(bytes) THEN (IF d.needed # 0 THEN << 65533 >> ELSE << >>)
    ELSE LET b == bytes[i] IN
         IF d.needed = 0
         THEN IF b <= 127 THEN << b >> \o Call3(Utf8Decode, bytes, i + 1, Utf8Start)
              ELSE IF b >= 194 /\ b <= 223
                   THEN Call3(Utf8Decode, bytes, i + 1, Utf8Lead(b, 32, 1, 128, 191))
              ELSE IF b >= 224 /\ b <= 239
                   THEN Call3(Utf8Decode, bytes, i + 1,
                              Utf8Lead(b, 16, 2, IF b = 224 THEN 160 ELSE 128,
                                       IF b = 237 THEN 159 ELSE 191))
              ELSE IF b >= 240 /\ b <= 244
                   THEN Call3(Utf8Decode, bytes, i + 1,
                              Utf8Lead(b, 8, 3, IF b = 240 THEN 144 ELSE 128,
                                       IF b = 244 THEN 143 ELSE 191))
              ELSE << 65533 >> \o Call3(Utf8Decode, bytes, i + 1, Utf8Start)
         ELSE IF b < d.lower \/ b > d.upper
              THEN << 65533 >> \o Call3(Utf8Decode, bytes, i, Utf8Start)
              ELSE IF d.seen + 1 = d.needed
                   THEN << d.cp * 64 + (b % 64) >> \o Call3(Utf8Decode, bytes, i + 1, Utf8Start)
                   ELSE Call3(Utf8Decode, bytes, i + 1,
                              [cp |-> d.cp * 64 + (b % 64), needed |-> d.needed,
                               seen |-> d.seen + 1, lower |-> 128, upper |-> 191])

\* new TextDecoder().decode(bytes)
TextDecode(bytes) ==
    LET hasBOM == Len(bytes) >= 3 /\ bytes[1] = 239 /\ bytes[2] = 187 /\ bytes[3] = 191
    IN  Let(Call3(Utf8Decode, bytes, IF hasBOM THEN 4 ELSE 1, Utf8Start), LAMBDA codePoints :
            Concat([k \in 1..Len(codePoints) |-> CodeUnits(codePoints[k])]))

(***************************************************************************)
(* des.ts                                                                  *)
(***************************************************************************)
\* The code units of v.toString(16).toUpperCase() for v in 0..15, and of NaN's.
HexText(v) ==
    IF v = NaN THEN << 78, 65, 78 >>
    ELSE IF v < 10 THEN << 48 + v >> ELSE << 55 + v >>

\* binaryToHex, were its loop to step by 8.
binaryToHex_Step8(binary) ==
    IF Len(binary) % 4 # 0 THEN Throw("Error", "Binary string length must be a multiple of 4.")
    ELSE Return(Concat([g \in 1..((Len(binary) + 7) \div 8) |->
                           Call1(HexText, Call1(ParseInt2, Slice(binary, 8 * (g - 1), 8 * g - 4)))]))

binaryToHex(binary) ==
    IF Len(binary) % 4 # 0 THEN Throw("Error", "Binary string length must be a multiple of 4.")
    ELSE Return(Concat([g \in 1..(Len(binary) \div 4) |->
                           Call1(HexText, Call1(ParseInt2, Slice(binary, 4 * (g - 1), 4 * g)))]))

\* parseInt(c, 16) of one character.
ParseHexChar(c) ==
    IF c >= 48 /\ c <= 57 THEN c - 48
    ELSE IF c >= 65 /\ c <= 70 THEN c - 55
    ELSE IF c >= 97 /\ c <= 102 THEN c - 87
    ELSE NaN

\* parseInt(c, 16).toString(2)
HexCharBits(v) == IF v = NaN THEN NaNText ELSE Call1(ToBinary, v)

hexToBinary(hex) ==
    Concat([i \in 1..Len(hex) |->
               Call3(PadStart, Call1(HexCharBits, ParseHexChar(hex[i])), 4, "0")])

stringToBinary(input) ==
    Let(Call1(TextEncode, input), LAMBDA utf8Bytes :
    Let(Concat([i \in 1..Len(utf8Bytes) |->
                   Call3(PadStart, Call1(ToBinary, utf8Bytes[i]), 8, "0")]), LAMBDA binaryString :
        PadEnd(binaryString, CeilTo(Len(binaryString), 64), "0")))

\* What Uint8Array stores of parseInt's result: NaN is stored as 0.
ToUint8(charCode) == IF charCode = NaN THEN 0 ELSE charCode % 256

\* The bytes of binaryToString.
BinaryToBytes(binary) ==
    [g \in 1..((Len(binary) + 7) \div 8) |->
        Call1(ToUint8, Call1(ParseInt2, Slice(binary, 8 * (g - 1), 8 * g)))]

binaryToString(binary) == Call1(TextDecode, Call1(BinaryToBytes, binary))

splitBinary(input) ==
    IF Len(input) # 64 THEN Throw("Error", "Input must be a 64-bit binary string")
    ELSE Return(<< Slice(input, 0, 32), SliceFrom(input, 32) >>)

e_transform(input) ==
    IF Len(input) # 32 THEN Throw("Error", "The input binary string must be 32 bits")
    ELSE Return([i \in 1..48 |-> input[E_SELECTION[i]]])

\* Characters past the end of an operand are undefined, and equal only to each other.
xorBinaryStrings(binaryString1, binaryString2, length) ==
    IF length <= Len(binaryString1) /\ length <= Len(binaryString2)
    THEN [i \in 1..length |-> IF binaryString1[i] = binaryString2[i] THEN "0" ELSE "1"]
    ELSE [i \in 1..length |->
             IF CharAt(binaryString1, i - 1) = CharAt(binaryString2, i - 1) THEN "0" ELSE "1"]

decimalToBinary(num, length) == Call3(PadStart, Call1(ToBinary, num), length, "0")

\* swapStrings, were it to leave the halves where they are.
swapStrings_Unswapped(arr) == arr

swapStrings(arr) == << arr[2], arr[1] >>

\* row and column of the S-box lookup of one 6-bit group.
SBoxRow(sixBits) == Call1(ParseInt2, Slice(sixBits, 0, 1) \o SliceFrom(sixBits, 5))

SBoxColumn(sixBits) == Call1(ParseInt2, Slice(sixBits, 1, 5))

Bit(c) == IF c = "1" THEN 1 ELSE 0

IsBinary(s) == \A i \in 1..Len(s) : s[i] \in {"0", "1"}

\* The S-box value of group i (1-based) of 48 binary digits: every group has six
\* digits and parseInt reads all of those it is given.
SBoxValue(b, i) ==
    S_BOX[i][2 * Bit(b[6 * i - 5]) + Bit(b[6 * i]) + 1]
         [8 * Bit(b[6 * i - 4]) + 4 * Bit(b[6 * i - 3])
            + 2 * Bit(b[6 * i - 2]) + Bit(b[6 * i - 1]) + 1]

\* sBoxTransform on 48 binary digits: the S-box values are below 16, and
\* decimalToBinary(sBoxValue, 4) is their four binary digits.
SBoxOfBits(b) ==
    Let([i \in 1..8 |-> SBoxValue(b, i)], LAMBDA sBoxValue :
        [j \in 1..32 |->
            IF (sBoxValue[(j + 3) \div 4] \div (2 ^ (3 - ((j - 1) % 4)))) % 2 = 1
            THEN "1" ELSE "0"])

\* sBoxTransform on any string: a row or column that is NaN indexes undefined,
\* and the lookup throws.
SBoxOfString(input48bit) ==
    Let([i \in 1..8 |-> Call1(SBoxRow, Slice(input48bit, (i - 1) * 6, (i - 1) * 6 + 6))],
        LAMBDA rows :
    Let([i \in 1..8 |-> Call1(SBoxColumn, Slice(input48bit, (i - 1) * 6, (i - 1) * 6 + 6))],
        LAMBDA columns :
        IF \E i \in 1..8 : rows[i] = NaN \/ columns[i] = NaN
        THEN Throw("TypeError", "Cannot read properties of undefined")
        ELSE Return(Concat([i \in 1..8 |->
                               decimalToBinary(S_BOX[i][rows[i] + 1][columns[i] + 1], 4)]))))

sBoxTransform(input48bit) ==
    IF Len(input48bit) = 48 /\ IsBinary(input48bit)
    THEN Return(SBoxOfBits(input48bit))
    ELSE SBoxOfString(input48bit)

\* The iteration of the round loop, were it to leave the halves where they are.
FeistelRound_Unswapped(splitArray, roundKey) ==
    Let(Call1(e_transform, splitArray[2]), LAMBDA e :
        IF e.kind = "throw" THEN e
        ELSE Let(Call1(sBoxTransform, Call3(xorBinaryStrings, e.val, roundKey, 48)),
                 LAMBDA sBoxResult :
                 IF sBoxResult.kind = "throw" THEN sBoxResult
                 ELSE LET p == Call3(rangeBits, sBoxResult.val, P_TRANSFORM, 32)
                          toLeft == Call3(xorBinaryStrings, splitArray[1], p, 32)
                      IN  Return(<< toLeft, splitArray[2] >>)))

\* One iteration of the round loop on splitArray with the round key keyArray[i].
FeistelRound(splitArray, roundKey) ==
    Let(Call1(e_transform, splitArray[2]), LAMBDA e :
        IF e.kind = "throw" THEN e
        ELSE Let(Call1(sBoxTransform, Call3(xorBinaryStrings, e.val, roundKey, 48)),
                 LAMBDA sBoxResult :
                 IF sBoxResult.kind = "throw" THEN sBoxResult
                 ELSE LET temp == splitArray[2]
                          p == Call3(rangeBits, sBoxResult.val, P_TRANSFORM, 32)
                          toLeft == Call3(xorBinaryStrings, splitArray[1], p, 32)
                      IN  Return(<< temp, toLeft >>)))

\* The round loop: the rounds of the 1-based key indices in order, one after the other.
RECURSIVE Rounds(_, _, _)
Rounds(splitArray, keyArray, order) ==
    IF order = << >> THEN Return(splitArray)
    ELSE Let(Call2(FeistelRound, splitArray, keyArray[Head(order)]), LAMBDA next :
             IF next.kind = "throw" THEN next
             ELSE Call3(Rounds, next.val, keyArray, Tail(order)))

EncryptOrder == [i \in 1..16 |-> i]

\* The decrypting loop, were it to count as the encrypting one does.
DecryptOrder_Forward == [i \in 1..16 |-> i]

DecryptOrder == [i \in 1..16 |-> 17 - i]

\* The body of the block loop after the block is cut: initial permutation, split,
\* sixteen rounds, swap, inverse permutation.
BlockTransform(block, keyArray, order) ==
    Let(Call1(splitBinary, Call3(rangeBits, block, IP, 64)), LAMBDA splitArray :
        IF splitArray.kind = "throw" THEN splitArray
        ELSE Let(Call3(Rounds, splitArray.val, keyArray, order), LAMBDA rounds :
                 IF rounds.kind = "throw" THEN rounds
                 ELSE Let(Call1(swapStrings, rounds.val), LAMBDA swapped :
                          Return(Call3(rangeBits, swapped[1] \o swapped[2], IP_INVERSE, 64)))))

\* The block loop, were every block but the first combined with the output of the
\* block before it.
RECURSIVE ChainedLoop(_, _, _, _)
ChainedLoop(blocks, keyArray, order, previous) ==
    IF blocks = << >> THEN Return(<< >>)
    ELSE Let(Call3(BlockTransform, Call3(xorBinaryStrings, Head(blocks), previous, 64),
                   keyArray, order), LAMBDA afterIPInverse :
             IF afterIPInverse.kind = "throw" THEN afterIPInverse
             ELSE Let(ChainedLoop(Tail(blocks), keyArray, order, afterIPInverse.val), LAMBDA rest :
                      IF rest.kind = "throw" THEN rest
                      ELSE Return(afterIPInverse.val \o rest.val)))

BlockLoop_Chained(blocks, keyArray, order) ==
    ChainedLoop(blocks, keyArray, order, Repeat("0", 64))

\* The block loop: the outputs of the blocks in order, or the first throw.
RECURSIVE BlockLoop(_, _, _)
BlockLoop(blocks, keyArray, order) ==
    IF blocks = << >> THEN Return(<< >>)
    ELSE Let(Call3(BlockTransform, Head(blocks), keyArray, order), LAMBDA afterIPInverse :
             IF afterIPInverse.kind = "throw" THEN afterIPInverse
             ELSE Let(Call3(BlockLoop, Tail(blocks), keyArray, order), LAMBDA rest :
                      IF rest.kind = "throw" THEN rest
                      ELSE Return(afterIPInverse.val \o rest.val)))

\* The blocks the encrypting loop cuts from textBinary.
EncryptBlocks(textBinary) ==
    [b \in 1..((Len(textBinary) + 63) \div 64) |->
        PadEnd(Slice(textBinary, 64 * (b - 1), 64 * b), 64, "0")]

\* DecryptBlocks, were it to pad a short block as the encrypting loop does.
DecryptBlocks_Padded(input) ==
    [b \in 1..((Len(input) + 63) \div 64) |->
        PadEnd(Slice(input, 64 * (b - 1), 64 * b), 64, "0")]

\* The blocks the decrypting loop cuts from the decoded input.
DecryptBlocks(input) ==
    [b \in 1..((Len(input) + 63) \div 64) |-> Slice(input, 64 * (b - 1), 64 * b)]

createDESCipherText(input, key) ==
    Let(Call1(getOutPutKeys, key), LAMBDA keyArray :
        IF keyArray.kind = "throw" THEN keyArray
        ELSE Let(Call3(BlockLoop, Call1(EncryptBlocks, Call1(stringToBinary, input)),
                       keyArray.val, EncryptOrder), LAMBDA cipherText :
                 IF cipherText.kind = "throw" THEN cipherText @@ [log |-> keyArray.log]
                 ELSE Call1(binaryToHex, cipherText.val) @@ [log |-> keyArray.log]))

\* createDESPlainText up to the end of its block loop: the outcome is binaryText.
PlainBinary(input, key) ==
    Let(Call1(getOutPutKeys, key), LAMBDA keyArray :
        IF keyArray.kind = "throw" THEN keyArray
        ELSE Call3(BlockLoop, Call1(DecryptBlocks, Call1(hexToBinary, input)),
                   keyArray.val, DecryptOrder) @@ [log |-> keyArray.log])

createDESPlainText(input, key) ==
    Let(Call2(PlainBinary, input, key), LAMBDA binaryText :
        IF binaryText.kind = "throw" THEN binaryText
        ELSE Return(Call1(binaryToString, binaryText.val)) @@ [log |-> binaryText.log])

getDESCipherText(input, key) == Call2(createDESCipherText, input, key)

getDESPlainText(input, key) == Call2(createDESPlainText, input, key)

(***************************************************************************)
(* A caller of the core: it has a text and a key, calls one of the three   *)
(* exported functions with them, and may then decrypt what it got from     *)
(* getDESCipherText, with the same key or with another one.                *)
(***************************************************************************)
\* The longest key handleConvert passes on (page.tsx).
KeyLimit == 32

\* How far beyond KeyLimit the drawn keys go.
MaxOverLimit == 1

\* The length of the drawn tails of a text, in code units.
MaxTail == 2

\* An ASCII key of n letters: "ABC...".
AsciiKey(n) == [i \in 1..n |-> 65 + ((i - 1) % 26)]

KeyLengths == {0, 1, 8, 9, KeyLimit} \cup (KeyLimit + 1 .. KeyLimit + MaxOverLimit)

\* Code units above 127: U+0080, the first of them, and U+4E2D.
NonAscii == {128, 20013}

\* Keys of every drawn length, the two ends of the ASCII range, and keys with
\* a character above 127 in the first chunk, at its end and in the second one.
Keys ==
    {AsciiKey(n) : n \in KeyLengths}
        \cup {<< 0 >>, << 127 >>}
        \cup {<< c >> : c \in NonAscii}
        \cup {[AsciiKey(9) EXCEPT ![p] = c] : p \in {1, 8, 9}, c \in NonAscii}

\* The key of a second party that does not know the first one's.
OtherKey == AsciiKey(8)

\* "A", NUL, U+00E9 (2 bytes), U+FEFF (the byte order mark, 3 bytes) and a
\* high surrogate, which forms no character when no low surrogate follows.
Alphabet == {65, 0, 233, 65279, 55357}

RECURSIVE SeqsUpTo(_, _)
SeqsUpTo(S, n) ==
    IF n = 0 THEN {<< >>}
    ELSE SeqsUpTo(S, n - 1) \cup {Append(t, c) : t \in SeqsUpTo(S, n - 1), c \in S}

\* Texts of 0 to 6 + 2 * MaxTail... bytes: a run of "A" and a tail over Alphabet.
Texts == {Repeat(65, n) \o t : n \in {0, 6}, t \in SeqsUpTo(Alphabet, MaxTail)}

\* Hex digits in both cases, and with them characters that are none: "G", "-"
\* and U+00E9.
HexDigits == << 48, 49, 55, 65, 70, 97, 102 >>

HexLike == HexDigits \o << 71, 45, 233 >>

\* Strings a caller may hand to getDESPlainText without having encrypted
\* anything: n characters from the first m of HexLike, from position `from` on,
\* cyclically.
CipherLike(n, from, m) == [i \in 1..n |-> HexLike[((from + i - 2) % m) + 1]]

CipherInputs ==
    {CipherLike(n, from, m) :
        n \in {1, 15, 16, 17, 32}, from \in {1, 6}, m \in {Len(HexDigits), Len(HexLike)}}
        \cup {Repeat(c, n) : c \in {70, 71}, n \in {1, 16, 32}}

Inputs == Texts \cup CipherInputs

\* The keys every input is tried with, and the inputs every key is tried with.
MainKeys == {AsciiKey(1), AsciiKey(KeyLimit)}

MainInputs == {<< >>, << 65 >>, Repeat(70, 16)}

Arguments == (Inputs \X MainKeys) \cup (MainInputs \X Keys)

\* What the caller keeps of a call's outcome; the console keeps its log.
Result(o) == [kind |-> o.kind, val |-> o.val, name |-> o.name, message |-> o.message]

\* No form is on the screen.
NoConvert == [user |-> "", key |-> << >>, resultBefore |-> << >>, invoked |-> FALSE, threw |-> FALSE]

NoForm ==
    /\ app = "none"
    /\ userData = << >>
    /\ error = ""
    /\ convert = NoConvert
    /\ readers = << >>

Init ==
    /\ \E a \in Arguments : argInput = a[1] /\ argKey = a[2]
    /\ calls = << >>
    /\ console = << >>
    /\ NoForm

\* The call f(t, k) with outcome o is made: it is recorded and its log is written.
Invoke(f, t, k, o) ==
    /\ calls' = Append(calls, [fn |-> f, input |-> t, key |-> k, outcome |-> Result(o)])
    /\ console' = console \o o.log
    /\ UNCHANGED << argInput, argKey, uiVars >>

\* getDESCipherText(t, k)
EncryptWith(t, k) == \E o \in {getDESCipherText(t, k)} : Invoke("getDESCipherText", t, k, o)

\* getDESPlainText(t, k)
DecryptWith(t, k) == \E o \in {getDESPlainText(t, k)} : Invoke("getDESPlainText", t, k, o)

\* getOutPutKeys(k)
DeriveKeysWith(k) == \E o \in {getOutPutKeys(k)} : Invoke("getOutPutKeys", << >>, k, o)

Encrypt == calls = << >> /\ EncryptWith(argInput, argKey)

Decrypt == calls = << >> /\ DecryptWith(argInput, argKey)

DeriveKeys == calls = << >> /\ DeriveKeysWith(argKey)

\* getDESPlainText(c, k) for the ciphertext c that getDESCipherText just returned.
DecryptResult(k) ==
    /\ Len(calls) = 1
    /\ calls[1].fn = "getDESCipherText"
    /\ calls[1].outcome.kind = "return"
    /\ DecryptWith(calls[1].outcome.val, k)

Next ==
    \/ Encrypt
    \/ Decrypt
    \/ DeriveKeys
    \/ \E k \in {argKey, OtherKey} : DecryptResult(k)

Spec == Init /\ [][Next]_vars

(***************************************************************************)
(* A caller that makes several calls, one after the other, with its own    *)
(* text and key or with another text and another key.                      *)
(***************************************************************************)
\* The number of calls of one caller.
MaxCalls == 3

OtherText == Repeat(48, 16)

HistoryArguments == {<< << 65 >>, AsciiKey(1) >>}

InitHistory ==
    /\ \E a \in HistoryArguments : argInput = a[1] /\ argKey = a[2]
    /\ calls = << >>
    /\ console = << >>
    /\ NoForm

EncryptAgain(t, k) == Len(calls) < MaxCalls /\ EncryptWith(t, k)

DecryptAgain(t, k) == Len(calls) < MaxCalls /\ DecryptWith(t, k)

DeriveKeysAgain(k) == Len(calls) < MaxCalls /\ DeriveKeysWith(k)

NextHistory ==
    \E t \in {argInput, OtherText}, k \in {argKey, OtherKey} :
        \/ EncryptAgain(t, k)
        \/ DecryptAgain(t, k)
        \/ DeriveKeysAgain(k)

SpecHistory == InitHistory /\ [][NextHistory]_vars

(***************************************************************************)
(* A caller of the parts: it derives the schedule of a key of several      *)
(* chunks and then that of the same chunks in another order, or it calls   *)
(* one part of the cipher on its own with arguments of its choice.         *)
(***************************************************************************)
\* Keys of two and three chunks, a key with a chunk to pad, a key of two equal chunks.
ChunkKeys == {AsciiKey(9), AsciiKey(16), AsciiKey(24), AsciiKey(8) \o AsciiKey(8)}

\* The chunks processKey cuts a key into.
Chunks(k) ==
    [c \in 1..((Len(k) + 7) \div 8) |->
        Slice(PadEnd(k, CeilTo(Len(k), 8), PadChar), 8 * (c - 1), 8 * c)]

\* The keys made of the chunks of k in every order.
Rearranged(k) ==
    {Concat([c \in 1..Len(Chunks(k)) |-> Chunks(k)[p[c]]]) : p \in Permutations(1..Len(Chunks(k)))}

\* The caller calls no part.
NoPart == [fn |-> "", args |-> << >>]

\* n binary digits, "1" at the positions that are r modulo m.
Bits(n, m, r) == [i \in 1..n |-> IF i % m = r THEN "1" ELSE "0"]

\* Halves of a block and round keys for one round.
Halves == {Repeat("0", 32), Repeat("1", 32), Bits(32, 2, 0), Bits(32, 3, 1)}

RoundKeys == {Repeat("0", 48), Repeat("1", 48), Bits(48, 3, 0), Bits(48, 7, 1)}

RoundCalls == {[fn |-> "round", args |-> << << l, r >>, k >>] : l \in Halves, r \in Halves, k \in RoundKeys}

\* Arguments of the right length for the transforms, and of others.
RangeBitsCalls ==
    {[fn |-> "rangeBits", args |-> << Bits(n, 2, 0), t, Len(t) >>] :
        n \in {4, 31, 32, 63, 64}, t \in {IP, P_TRANSFORM}}

XorCalls ==
    {[fn |-> "xorBinaryStrings", args |-> << Bits(a, 2, 0), Bits(b, 3, 0), n >>] :
        a \in {31, 32, 48}, b \in {31, 32, 48}, n \in {32, 48}}

SBoxCalls == {[fn |-> "sBoxTransform", args |-> << Bits(n, 2, 0) >>] : n \in {0, 47, 48, 49}}

SubKeysCalls == {[fn |-> "generateSubKeys", args |-> << Bits(n, 3, 1) >>] : n \in {55, 56, 57}}

\* Blocks, and sixteen round keys that no key need have: the block loop's body
\* with them, encrypting or decrypting.
Blocks == {Repeat("0", 64), Bits(64, 2, 0), Bits(64, 3, 1), Bits(64, 5, 2)}

KeyArrays ==
    {[i \in 1..16 |-> Repeat("0", 48)],
     [i \in 1..16 |-> Bits(48, i + 1, 0)],
     [i \in 1..16 |-> Bits(48, 3, i % 3)]}

BlockCalls ==
    {[fn |-> "block", args |-> << b, ks, d >>] :
        b \in Blocks, ks \in KeyArrays, d \in {"encrypt", "decrypt"}}

PartCalls == RoundCalls \cup RangeBitsCalls \cup XorCalls \cup SBoxCalls \cup SubKeysCalls \cup BlockCalls

\* The order of the round keys in the loop that encrypts and in the one that decrypts.
OrderOf(d) == IF d = "encrypt" THEN EncryptOrder ELSE DecryptOrder

Opposite(d) == IF d = "encrypt" THEN "decrypt" ELSE "encrypt"

InitParts ==
    /\ \/ argInput = NoPart /\ argKey \in ChunkKeys
       \/ argInput \in PartCalls /\ argKey = << >>
    /\ calls = << >>
    /\ console = << >>
    /\ NoForm

\* The part f is called with args and has outcome o: it writes no line.
InvokePart(f, args, o) == Invoke(f, args, << >>, o @@ [log |-> << >>])

\* The part argInput names is called with the arguments argInput has.
CallPart(f, o) ==
    /\ calls = << >>
    /\ argInput.fn = f
    /\ InvokePart(f, argInput.args, o)

\* One iteration of the round loop.
CallRound ==
    /\ argInput.fn = "round"
    /\ \E o \in {FeistelRound(argInput.args[1], argInput.args[2])} : CallPart("round", o)

CallRangeBits ==
    /\ argInput.fn = "rangeBits"
    /\ \E o \in {Return(rangeBits(argInput.args[1], argInput.args[2], argInput.args[3]))} :
          CallPart("rangeBits", o)

CallXorBinaryStrings ==
    /\ argInput.fn = "xorBinaryStrings"
    /\ \E o \in {Return(xorBinaryStrings(argInput.args[1], argInput.args[2], argInput.args[3]))} :
          CallPart("xorBinaryStrings", o)

CallSBoxTransform ==
    /\ argInput.fn = "sBoxTransform"
    /\ \E o \in {sBoxTransform(argInput.args[1])} : CallPart("sBoxTransform", o)

CallGenerateSubKeys ==
    /\ argInput.fn = "generateSubKeys"
    /\ \E o \in {Return(generateSubKeys(argInput.args[1]))} : CallPart("generateSubKeys", o)

\* The body of the block loop on one block.
CallBlock ==
    /\ argInput.fn = "block"
    /\ \E o \in {BlockTransform(argInput.args[1], argInput.args[2], OrderOf(argInput.args[3]))} :
          CallPart("block", o)

\* The body of the other block loop on the block the first one made, with the
\* same round keys.
CallBlockBack ==
    /\ Len(calls) = 1
    /\ calls[1].fn = "block"
    /\ calls[1].outcome.kind = "return"
    /\ \E o \in {BlockTransform(calls[1].outcome.val, calls[1].input[2],
                                 OrderOf(Opposite(calls[1].input[3])))} :
          InvokePart("block", << calls[1].outcome.val, calls[1].input[2],
                                 Opposite(calls[1].input[3]) >>, o)

\* getOutPutKeys(argKey)
DeriveChunkKeys == argInput = NoPart /\ DeriveKeys

\* getOutPutKeys(k) for a key k of the chunks of the first key.
DeriveRearranged(k) ==
    /\ Len(calls) = 1
    /\ calls[1].fn = "getOutPutKeys"
    /\ k \in Rearranged(calls[1].key)
    /\ DeriveKeysWith(k)

NextParts ==
    \/ DeriveChunkKeys
    \/ \E k \in Rearranged(argKey) : DeriveRearranged(k)
    \/ CallRound
    \/ CallRangeBits
    \/ CallXorBinaryStrings
    \/ CallSBoxTransform
    \/ CallGenerateSubKeys
    \/ CallBlock
    \/ CallBlockBack

SpecParts == InitParts /\ [][NextParts]_vars

(***************************************************************************)
(* The form (page.tsx, and part_000 for the form of one user).  What its   *)
(* handlers write to the console is not followed here.                     *)
(***************************************************************************)
\* useState's initial value for one user.
\* No file: null in userData, undefined as files[0].
NoFile == [name |-> "", type |-> "", content |-> << >>]

InitialUserData ==
    [isEncrypting |-> TRUE, inputType |-> "text", input |-> << >>, key |-> << >>, result |-> << >>,
     file |-> NoFile, mergedKey |-> << >>]

KeyError == "The key cannot be empty and cannot be longer than 32."

ProcessingError == "An error occurred during processing. Please check your input"

MergeError == "Both users must enter a key to merge."

\* The keys a user types, the texts a user enters.
FormKeys ==
    IF app = "pair" THEN {<< >>, AsciiKey(1)}
    ELSE {<< >>, AsciiKey(1), AsciiKey(KeyLimit), << 20013 >>}
            \cup {AsciiKey(n) : n \in (KeyLimit + 1 .. KeyLimit + MaxOverLimit)}

FormTexts == IF app = "pair" THEN {<< >>, << 65 >>} ELSE {<< >>, << 65 >>, Repeat(70, 16)}

\* Two strings of 32 hex digits.
Digests == {[i \in 1..32 |-> IF i % 2 = 0 THEN 97 ELSE 49], [i \in 1..32 |-> IF i % 3 = 0 THEN 48 ELSE 102]}

\* hashMergeKeys returns the first 32 hex digits of the SHA-256 digest of
\* key1 + key2.  The digest is not computed: any of Digests may be it.
hashMergeKeys(key1, key2) == Digests

InitUI ==
    /\ argInput = << >>
    /\ argKey = << >>
    /\ calls = << >>
    /\ console = << >>
    /\ app \in {"single", "pair"}
    /\ userData = [user \in (IF app = "pair" THEN {"a", "b"} ELSE {"a"}) |-> InitialUserData]
    /\ error = ""
    /\ convert = NoConvert
    /\ readers = << >>

\* The key field: handleKeyChange, and setKey in the form of one user.
handleKeyChange(user, newKey) ==
    /\ userData' = [userData EXCEPT ![user].key = newKey]
    /\ convert' = NoConvert
    /\ UNCHANGED << app, error, readers, coreVars >>

\* The text area's onChange.
setInput(user, value) ==
    /\ userData[user].inputType = "text"
    /\ userData' = [userData EXCEPT ![user].input = value]
    /\ convert' = NoConvert
    /\ UNCHANGED << app, error, readers, coreVars >>

\* The switch between encrypting and decrypting.
setIsEncrypting(user, checked) ==
    /\ userData' = [userData EXCEPT ![user].isEncrypting = checked]
    /\ convert' = NoConvert
    /\ UNCHANGED << app, error, readers, coreVars >>

\* handleMergeKeys('a', 'b')
handleMergeKeys(userA, userB) ==
    /\ app = "pair"
    /\ IF userData[userA].key = << >> \/ userData[userB].key = << >>
       THEN /\ error' = MergeError
            /\ UNCHANGED userData
       ELSE /\ \E mergedKey \in hashMergeKeys(userData[userA].key, userData[userB].key) :
                 userData' = [userData EXCEPT ![userA].mergedKey = mergedKey,
                                              ![userB].mergedKey = mergedKey]
            /\ UNCHANGED error
    /\ convert' = NoConvert
    /\ UNCHANGED << app, readers, coreVars >>

\* handleConvert, were its catch to clear the result.
ConvertWith_ClearingResult(user, key) ==
    IF key = << >> \/ Len(key) > KeyLimit
    THEN /\ error' = KeyError
         /\ UNCHANGED userData
         /\ convert' = [user |-> user, key |-> key, resultBefore |-> userData[user].result,
                        invoked |-> FALSE, threw |-> FALSE]
    ELSE \E o \in {IF userData[user].isEncrypting
                   THEN getDESCipherText(userData[user].input, key)
                   ELSE getDESPlainText(userData[user].input, key)} :
            /\ IF o.kind = "throw"
               THEN /\ error' = ProcessingError
                    /\ userData' = [userData EXCEPT ![user].result = << >>]
               ELSE /\ error' = ""
                    /\ userData' = [userData EXCEPT ![user].result = o.val]
            /\ convert' = [user |-> user, key |-> key, resultBefore |-> userData[user].result,
                           invoked |-> TRUE, threw |-> o.kind = "throw"]

\* The body of handleConvert for the key it reads.
ConvertWith(user, key) ==
    IF key = << >> \/ Len(key) > KeyLimit
    THEN /\ error' = KeyError
         /\ UNCHANGED userData
         /\ convert' = [user |-> user, key |-> key, resultBefore |-> userData[user].result,
                        invoked |-> FALSE, threw |-> FALSE]
    ELSE \E o \in {IF userData[user].isEncrypting
                   THEN getDESCipherText(userData[user].input, key)
                   ELSE getDESPlainText(userData[user].input, key)} :
            /\ IF o.kind = "throw"
               THEN /\ error' = ProcessingError
                    /\ UNCHANGED userData
               ELSE /\ error' = ""
                    /\ userData' = [userData EXCEPT ![user].result = o.val]
            /\ convert' = [user |-> user, key |-> key, resultBefore |-> userData[user].result,
                           invoked |-> TRUE, threw |-> o.kind = "throw"]

\* handleConvert(user) of page.tsx
handleConvert(user) ==
    /\ app = "pair"
    /\ ConvertWith(user, userData[user].mergedKey)
    /\ UNCHANGED << app, readers, coreVars >>

\* handleConvert() of the form of one user
handleConvertSingle ==
    /\ app = "single"
    /\ ConvertWith("a", userData["a"].key)
    /\ UNCHANGED << app, readers, coreVars >>

NextUI ==
    \/ \E user \in DOMAIN userData, newKey \in FormKeys : handleKeyChange(user, newKey)
    \/ \E user \in DOMAIN userData, value \in FormTexts : setInput(user, value)
    \/ \E user \in DOMAIN userData, checked \in BOOLEAN : setIsEncrypting(user, checked)
    \/ handleMergeKeys("a", "b")
    \/ \E user \in DOMAIN userData : handleConvert(user)
    \/ handleConvertSingle

SpecUI == InitUI /\ [][NextUI]_vars

(***************************************************************************)
(* The form's file input.  A FileReader reads in the background: between   *)
(* readAsText and the load event any other handler may run, and readers of *)
(* different files finish in any order.                                    *)
(***************************************************************************)
\* How many FileReaders read at the same time.
MaxReaders == 2

\* The files a user drops or selects, with the bytes they hold: "A", "B"
\* after a byte order mark, and a picture.
TextFiles ==
    {[name |-> "a.txt", type |-> "text/plain", content |-> << 65 >>],
     [name |-> "b.txt", type |-> "text/plain", content |-> << 239, 187, 191, 66 >>]}

Files == TextFiles \cup {[name |-> "c.png", type |-> "image/png", content |-> << 137, 80 >>]}

UploadError == IF app = "pair" THEN "Only .txt files can be uploaded!" ELSE "Only.txt files can be uploaded!"

\* The result of reader.readAsText(file): the file's bytes decoded as UTF-8.
readAsText(file) == TextDecode(file.content)

\* The select's onValueChange.
setInputType(user, value) ==
    /\ userData' = [userData EXCEPT ![user].inputType = value]
    /\ convert' = NoConvert
    /\ UNCHANGED << app, error, readers, coreVars >>

\* The body of handleDrop and of handleFileChange for the file they take.
Upload(user, file) ==
    /\ IF file # NoFile /\ file.type = "text/plain"
       THEN /\ Len(readers) < MaxReaders
            /\ userData' = [userData EXCEPT ![user].file = file]
            /\ readers' = Append(readers, [user |-> user, file |-> file])
            /\ UNCHANGED error
       ELSE /\ error' = UploadError
            /\ UNCHANGED << userData, readers >>
    /\ convert' = NoConvert
    /\ UNCHANGED << app, coreVars >>

\* handleDrop(e, user): the drop area is there whenever the input mode is "file".
handleDrop(user, droppedFile) ==
    /\ userData[user].inputType = "file"
    /\ Upload(user, droppedFile)

\* handleFileChange(e, user): the file field is there while no file is recorded.
handleFileChange(user, selectedFile) ==
    /\ userData[user].inputType = "file"
    /\ userData[user].file = NoFile
    /\ Upload(user, selectedFile)

\* The X button's onClick: it is there while a file is recorded.
clearFile(user) ==
    /\ userData[user].inputType = "file"
    /\ userData[user].file # NoFile
    /\ userData' = [userData EXCEPT ![user].file = NoFile, ![user].input = << >>]
    /\ convert' = NoConvert
    /\ UNCHANGED << app, error, readers, coreVars >>

\* reader.onload of the i-th reader: its read is over.
onload(i) ==
    /\ i \in DOMAIN readers
    /\ userData' = [userData EXCEPT ![readers[i].user].input = readAsText(readers[i].file)]
    /\ readers' = [j \in 1..(Len(readers) - 1) |-> IF j < i THEN readers[j] ELSE readers[j + 1]]
    /\ convert' = NoConvert
    /\ UNCHANGED << app, error, coreVars >>

NextFiles ==
    \/ \E user \in DOMAIN userData, value \in {"text", "file"} : setInputType(user, value)
    \/ \E user \in DOMAIN userData, value \in FormTexts : setInput(user, value)
    \/ \E user \in DOMAIN userData, droppedFile \in Files \cup {NoFile} : handleDrop(user, droppedFile)
    \/ \E user \in DOMAIN userData, selectedFile \in Files \cup {NoFile} : handleFileChange(user, selectedFile)
    \/ \E user \in DOMAIN userData : clearFile(user)
    \/ \E i \in DOMAIN readers : onload(i)

SpecFiles == InitUI /\ [][NextFiles]_vars

(***************************************************************************)
(* The claims.                                                             *)
(***************************************************************************)
IsAscii(k) == \A i \in 1..Len(k) : k[i] <= 127

IsHex(t) == \A i \in 1..Len(t) : ParseHexChar(t[i]) # NaN

\* The number of UTF-8 bytes of a text.
Utf8Length(t) == Len(TextEncode(t))

\* The calls of getDESCipherText and getDESPlainText made so far.
CipherCalls == {i \in DOMAIN calls : calls[i].fn \in {"getDESCipherText", "getDESPlainText"}}

\* The second call decrypted the result of the first with the first one's key.
RoundTrip ==
    /\ Len(calls) = 2
    /\ calls[1].fn = "getDESCipherText"
    /\ calls[2].fn = "getDESPlainText"
    /\ calls[2].input = calls[1].outcome.val
    /\ calls[2].key = calls[1].key

\* A text is well formed when its surrogates come in pairs, a high one and then
\* a low one.
IsWellFormed(t) ==
    \A i \in 1..Len(t) :
        /\ IsHighSurrogate(t[i]) => i < Len(t) /\ IsLowSurrogate(t[i + 1])
        /\ IsLowSurrogate(t[i]) => i > 1 /\ IsHighSurrogate(t[i - 1])

\* C1: for every ASCII key of 1 to 32 characters and every text T, decrypting
\* the ciphertext of T with the same key returns T followed by exactly
\* (8 - (n mod 8)) mod 8 null characters, n the number of UTF-8 bytes of T.
C1_RoundTripReturnsPaddedText ==
    (/\ RoundTrip
     /\ IsAscii(calls[1].key)
     /\ Len(calls[1].key) \in 1..KeyLimit
     /\ IsWellFormed(calls[1].input))
        => /\ calls[2].outcome.kind = "return"
           /\ calls[2].outcome.val
                = calls[1].input \o Repeat(0, (8 - (Utf8Length(calls[1].input) % 8)) % 8)

\* C2: whenever getDESCipherText returns, for a plaintext of n UTF-8 bytes, the
\* hex string it returns has 16 * ceil(n / 8) characters, a multiple of 16.
C2_CipherTextLength ==
    \A i \in DOMAIN calls :
        (calls[i].fn = "getDESCipherText" /\ calls[i].outcome.kind = "return")
            => /\ Len(calls[i].outcome.val) = 16 * ((Utf8Length(calls[i].input) + 7) \div 8)
               /\ Len(calls[i].outcome.val) % 16 = 0

\* getDESCipherText has returned two blocks for a plaintext that fills one block
\* and part of a second.
C2_Witness ==
    \E i \in DOMAIN calls :
        /\ calls[i].fn = "getDESCipherText"
        /\ calls[i].outcome.kind = "return"
        /\ Utf8Length(calls[i].input) \in 9..15
        /\ Len(calls[i].outcome.val) = 32

C4_NonAsciiKeyFails ==
    \A i \in DOMAIN calls :
        /\ ~IsAscii(calls[i].key)
            => /\ calls[i].outcome.kind = "throw"
               /\ calls[i].outcome.message = "Only ASCII characters are allowed"
               /\ \A l \in DOMAIN console : console[l][1] # "Generated subkeys:"
        /\ IsAscii(calls[i].key)
            => calls[i].outcome.message # "Only ASCII characters are allowed"

\* Key derivation has failed for a key whose only character above 127 is the
\* ninth, the first of its second chunk.
C4_Witness ==
    \E i \in DOMAIN calls :
        /\ calls[i].fn = "getOutPutKeys"
        /\ Len(calls[i].key) = 9
        /\ IsAscii(SubSeq(calls[i].key, 1, 8))
        /\ calls[i].key[9] > 127
        /\ calls[i].outcome.kind = "throw"

\* C5: handleConvert rejects a key that is empty or longer than 32 characters
\* with an error, before the cipher is invoked, and leaves the stored result as
\* it was; it passes a key of exactly 32 characters on to the cipher; and when
\* the cipher throws, the error is set and the stored result is left as it was.
\* The key is the one handleConvert reads: the key the user typed in the form of
\* one user, the merged key in the form of two.
C5_ConvertRejectsOrKeepsResult ==
    convert # NoConvert =>
        /\ (convert.key = << >> \/ Len(convert.key) > KeyLimit)
            => /\ ~convert.invoked
               /\ error = KeyError
               /\ userData[convert.user].result = convert.resultBefore
        /\ Len(convert.key) = KeyLimit => convert.invoked
        /\ convert.threw
            => /\ error = ProcessingError
               /\ userData[convert.user].result = convert.resultBefore

\* handleConvert has run with a result stored by an earlier run, the cipher has
\* thrown, and the result is still there.
C5_Witness ==
    /\ convert # NoConvert
    /\ convert.threw
    /\ convert.resultBefore # << >>
    /\ userData[convert.user].result = convert.resultBefore

\* C6: getDESPlainText fails for every ciphertext whose length is not a
\* multiple of 16 characters: a short final block is neither padded nor cut.
C6_ShortBlockFails ==
    \A i \in DOMAIN calls :
        (calls[i].fn = "getDESPlainText" /\ Len(calls[i].input) % 16 # 0)
            => calls[i].outcome.kind = "throw"

\* getDESPlainText has failed, with a key it accepts, on 17 hex digits: after
\* the key schedule was derived, on the second block.
C6_Witness ==
    \E i \in DOMAIN calls :
        /\ calls[i].fn = "getDESPlainText"
        /\ Len(calls[i].input) = 17
        /\ IsHex(calls[i].input)
        /\ calls[i].outcome.kind = "throw"
        /\ calls[i].outcome.message = "Input must be a 64-bit binary string"

\* C7: getDESPlainText fails for every ciphertext that contains a character
\* that is no hexadecimal digit, whatever its length, and never returns a text
\* for it.
C7_NonHexFails ==
    \A i \in DOMAIN calls :
        (calls[i].fn = "getDESPlainText" /\ ~IsHex(calls[i].input))
            => calls[i].outcome.kind = "throw"

\* The bytes getDESPlainText hands to the decoder in call i.
RecoveredBytes(i) == BinaryToBytes(PlainBinary(calls[i].input, calls[i].key).val)

\* Bytes are valid UTF-8 when they are the encoding of the characters they
\* decode to.
IsValidUtf8(bytes) ==
    TextEncode(Concat([k \in 1..Len(Utf8Decode(bytes, 1, Utf8Start)) |->
                          CodeUnits(Utf8Decode(bytes, 1, Utf8Start)[k])])) = bytes

\* C8: when the bytes recovered by decryption are not valid UTF-8,
\* getDESPlainText fails instead of returning a string.
C8_InvalidUtf8Fails ==
    \A i \in DOMAIN calls :
        (/\ calls[i].fn = "getDESPlainText"
         /\ PlainBinary(calls[i].input, calls[i].key).kind = "return"
         /\ ~IsValidUtf8(RecoveredBytes(i)))
            => calls[i].outcome.kind = "throw"

\* The three kinds of failure.
ErrorKinds == {"ValidationError", "FormatError", "DecodeError"}

\* C9: every failure of getDESCipherText and getDESPlainText carries one of the
\* three kinds of failure.
C9_FailuresCarryAKind ==
    \A i \in CipherCalls :
        calls[i].outcome.kind = "throw" => calls[i].outcome.name \in ErrorKinds

IsMalformed(t) == Len(t) % 16 # 0 \/ ~IsHex(t)

\* The lines of the console that hold a derived schedule.
ScheduleLines == {l \in DOMAIN console : console[l][1] = "Generated subkeys:"}

\* C11: when getDESPlainText is given a malformed ciphertext, it fails before any
\* cipher computation starts: the call throws and no round-key schedule has been
\* derived (and so no block transformed) by then.
C11_MalformedHexFailsBeforeSchedule ==
    (/\ Len(calls) = 1
     /\ calls[1].fn = "getDESPlainText"
     /\ IsMalformed(calls[1].input))
        => /\ calls[1].outcome.kind = "throw"
           /\ ScheduleLines = {}

\* The key padded on the right with null characters to a multiple of 8.
NulPadded(k) == PadEnd(k, CeilTo(Len(k), 8), 0)

\* C12: key derivation pads the key on the right with null characters up to the
\* next multiple of 8 characters: the key and the key so padded have the same
\* 64-bit value and the same schedule.
C12_KeyPaddedWithNul ==
    \A i \in DOMAIN calls :
        (calls[i].fn = "getOutPutKeys" /\ IsAscii(calls[i].key))
            => calls[i].outcome = Result(getOutPutKeys(NulPadded(calls[i].key)))

\* The bitwise exclusive or of the strings of binary digits ks[1], ..., ks[n].
XorOfAll(ks, n) ==
    [b \in 1..64 |-> IF Cardinality({c \in 1..n : ks[c][b] = "1"}) % 2 = 1 THEN "1" ELSE "0"]

\* The bag of the chunks of a key.
ChunkBag(k) == [ch \in {Chunks(k)[c] : c \in DOMAIN Chunks(k)} |->
                    Cardinality({c \in DOMAIN Chunks(k) : Chunks(k)[c] = ch})]

\* C13: the 64-bit value fed to PC-1 is the bitwise exclusive or of the 64-bit
\* values of all chunks of the padded key, and two keys whose padded forms have
\* the same chunks, in whatever order, have the same schedule.  (The padded form
\* is the one processKey makes.)
C13_ChunkOrderDoesNotMatter ==
    /\ \A i, j \in DOMAIN calls :
          (/\ calls[i].fn = "getOutPutKeys"
           /\ calls[j].fn = "getOutPutKeys"
           /\ ChunkBag(calls[i].key) = ChunkBag(calls[j].key))
              => calls[i].outcome = calls[j].outcome
    /\ (Len(calls) >= 1 /\ calls[1].fn = "getOutPutKeys" /\ IsAscii(calls[1].key)
            /\ calls[1].key # << >>)
          => console[1] = << "final64BitKey: ",
                             XorOfAll([c \in DOMAIN Chunks(calls[1].key) |->
                                          generate64BitKey(Chunks(calls[1].key)[c]).val],
                                      Len(Chunks(calls[1].key))) >>

\* The schedules of a key of three chunks and of its chunks in reverse order
\* have been derived.
C13_Witness ==
    /\ Len(calls) = 2
    /\ Len(Chunks(calls[1].key)) = 3
    /\ calls[2].key = Chunks(calls[1].key)[3] \o Chunks(calls[1].key)[2] \o Chunks(calls[1].key)[1]
    /\ calls[1].outcome.kind = "return"
    /\ calls[2].outcome.kind = "return"

\* The sum of the shift amounts of the rounds 1..i.
RECURSIVE ShiftSum(_)
ShiftSum(i) == IF i = 0 THEN 0 ELSE ShiftSum(i - 1) + KEY_SHIFT[i]

\* A string rotated left by n positions.
RotateLeft(s, n) == [p \in 1..Len(s) |-> s[((p - 1 + n) % Len(s)) + 1]]

\* C14: for every accepted key the schedule has exactly 16 entries of exactly
\* 48 bits each, and entry i is PC-2 of the two 28-bit halves of the PC-1 output,
\* each rotated left by the sum of the shift amounts of the rounds up to i.
C14_ScheduleOfCumulativeRotations ==
    (Len(calls) >= 1 /\ calls[1].fn = "getOutPutKeys" /\ IsAscii(calls[1].key)
        /\ calls[1].key # << >>)
        => /\ calls[1].outcome.kind = "return"
           /\ Len(calls[1].outcome.val) = 16
           /\ Len(console[2][2]) = 56
           /\ \A i \in 1..16 :
                 /\ Len(calls[1].outcome.val[i]) = 48
                 /\ IsBinary(calls[1].outcome.val[i])
                 /\ calls[1].outcome.val[i] =
                        [j \in 1..48 |->
                            (RotateLeft(SubSeq(console[2][2], 1, 28), ShiftSum(i))
                                \o RotateLeft(SubSeq(console[2][2], 29, 56), ShiftSum(i)))[PC_2[j]]]

\* The schedule of a key of 32 characters has been derived.
C14_Witness ==
    /\ Len(calls) = 1
    /\ calls[1].fn = "getOutPutKeys"
    /\ Len(calls[1].key) = KeyLimit
    /\ calls[1].outcome.kind = "return"
    /\ Len(calls[1].outcome.val) = 16

\* The calls of a part made so far.
PartCallsOf(f) == {i \in DOMAIN calls : calls[i].fn = f}

\* The bitwise exclusive or of two strings of binary digits of one length.
XorBits(a, b) == [i \in 1..Len(a) |-> IF a[i] = b[i] THEN "0" ELSE "1"]

\* The expansion E, the substitution S and the permutation P of the round.
RoundE(r) == [i \in 1..48 |-> r[E_SELECTION[i]]]

RoundS(x) ==
    Let([g \in 1..8 |->
            LET row == 2 * Bit(x[6 * g - 5]) + Bit(x[6 * g])
                column == 8 * Bit(x[6 * g - 4]) + 4 * Bit(x[6 * g - 3])
                            + 2 * Bit(x[6 * g - 2]) + Bit(x[6 * g - 1])
            IN  S_BOX[g][row + 1][column + 1]], LAMBDA box :
        [j \in 1..32 |->
            IF (box[(j + 3) \div 4] \div (2 ^ (3 - ((j - 1) % 4)))) % 2 = 1 THEN "1" ELSE "0"])

RoundP(y) == [i \in 1..32 |-> y[P_TRANSFORM[i]]]

\* C15: a round iteration maps the halves (L, R) with the round key K to
\* (L', R') with L' = R and R' = L XOR P(S(E(R) XOR K)), and both halves are
\* again exactly 32 bits.
C15_RoundFunction ==
    \A i \in PartCallsOf("round") :
        LET L == calls[i].input[1][1]
            R == calls[i].input[1][2]
            K == calls[i].input[2]
        IN  /\ calls[i].outcome.kind = "return"
            /\ calls[i].outcome.val = << R, XorBits(L, RoundP(RoundS(XorBits(RoundE(R), K)))) >>
            /\ Len(calls[i].outcome.val[1]) = 32
            /\ Len(calls[i].outcome.val[2]) = 32

\* A round has run on two different halves with a round key that is not zero.
C15_Witness ==
    \E i \in PartCallsOf("round") :
        /\ calls[i].input[1][1] = Bits(32, 2, 0)
        /\ calls[i].input[1][2] = Bits(32, 3, 1)
        /\ calls[i].input[2] = Bits(48, 7, 1)
        /\ calls[i].outcome.kind = "return"
        /\ calls[i].outcome.val[1] = Bits(32, 3, 1)

\* A key that key derivation accepts.
IsAccepted(k) == k # << >> /\ IsAscii(k)

\* The schedule call i derived, as the console has it.
ScheduleOf(i) ==
    console[3 * Cardinality({j \in 1..i : IsAccepted(calls[j].key)})][2]

\* The blocks call i cuts its input into.
BlocksOf(i) ==
    IF calls[i].fn = "getDESCipherText"
    THEN EncryptBlocks(stringToBinary(calls[i].input))
    ELSE DecryptBlocks(hexToBinary(calls[i].input))

\* A string permuted with a table.
Permuted(b, table) == [p \in 1..Len(table) |-> b[table[p]]]

\* The round with the round key k on the halves lr.
RoundOf(lr, k) ==
    << lr[2], Call2(XorBits, lr[1], Call1(RoundP, Call1(RoundS, Call2(XorBits, RoundE(lr[2]), k)))) >>

\* The rounds with the round keys ks[1], ..., ks[n], in this order.
RECURSIVE RoundsOf(_, _, _)
RoundsOf(lr, ks, n) ==
    IF n = 0 THEN lr ELSE Call2(RoundOf, Call3(RoundsOf, lr, ks, n - 1), ks[n])

\* Initial permutation, the sixteen rounds with ks[1], ..., ks[16], one swap of
\* the halves, inverse initial permutation.
KeyedBlock(b, ks) ==
    Let(Permuted(b, IP), LAMBDA afterIP :
    Let(Call3(RoundsOf, << SubSeq(afterIP, 1, 32), SubSeq(afterIP, 33, 64) >>, ks, 16),
        LAMBDA lr : Permuted(lr[2] \o lr[1], IP_INVERSE)))

\* What call i makes of its blocks when it applies the round keys of the schedule
\* it derived in the order of its direction.
KeyedBlocksOf(i) ==
    Let(ScheduleOf(i), LAMBDA schedule :
    Let([n \in 1..16 |-> IF calls[i].fn = "getDESCipherText"
                         THEN schedule[n] ELSE schedule[17 - n]], LAMBDA ks :
    Let(BlocksOf(i), LAMBDA blocks :
        Concat([j \in 1..Len(blocks) |-> Call2(KeyedBlock, blocks[j], ks)]))))

\* The call just made, when it is one of getDESCipherText or getDESPlainText: the
\* calls before it were the call just made in an earlier state.
LastCipherCall == {i \in CipherCalls : i = Len(calls)}

\* C16: a call derives the schedule exactly once, and for every block of the
\* message getDESCipherText applies its sixteen values in the order 0, 1, ..., 15
\* and getDESPlainText the same values in the order 15, 14, ..., 0, each once,
\* followed by one swap of the halves and the inverse initial permutation.
C16_ScheduleOnceKeysInOrder ==
    /\ Cardinality(ScheduleLines) = Cardinality({i \in DOMAIN calls : IsAccepted(calls[i].key)})
    /\ \A i \in LastCipherCall :
          (/\ IsAccepted(calls[i].key)
           /\ calls[i].fn = "getDESPlainText" => ~IsMalformed(calls[i].input))
              => /\ calls[i].outcome.kind = "return"
                 /\ calls[i].outcome.val
                      = IF calls[i].fn = "getDESCipherText"
                        THEN binaryToHex(KeyedBlocksOf(i)).val
                        ELSE binaryToString(KeyedBlocksOf(i))

\* A ciphertext of two blocks was made and then decrypted with the key it was
\* made with.
C16_Witness ==
    /\ RoundTrip
    /\ IsAccepted(calls[1].key)
    /\ Len(calls[2].input) = 32
    /\ calls[2].outcome.kind = "return"
    /\ Cardinality(ScheduleLines) = 2

\* The prefixes of a text that fill one block exactly and leave some of the text
\* (8 bytes are 3 to 8 code units).
BlockPrefixes(t) ==
    {n \in 1..(Len(t) - 1) :
        /\ n \in 3..8
        /\ Utf8Length(SubSeq(t, 1, n)) = 8
        /\ TextEncode(SubSeq(t, 1, n)) \o TextEncode(SubSeq(t, n + 1, Len(t))) = TextEncode(t)}

\* What the block loop of call i, with the schedule the call derived, makes of
\* a text and of a ciphertext on their own.
EncryptedAlone(t, i) ==
    BlockLoop(EncryptBlocks(stringToBinary(t)), ScheduleOf(i), EncryptOrder).val

DecryptedAlone(t, i) ==
    BlockLoop(DecryptBlocks(hexToBinary(t)), ScheduleOf(i), DecryptOrder).val

\* C17: blocks are processed independently: an output block depends on the
\* input block at its place and on the key only.  The ciphertext of a text is
\* the ciphertext of its first block followed by that of the rest, and what
\* getDESPlainText recovers from two blocks is what it recovers from the first
\* followed by what it recovers from the second, also when the two change
\* places; equal blocks give equal blocks.
C17_BlocksIndependent ==
    \A i \in LastCipherCall :
        IsAccepted(calls[i].key) =>
            /\ (calls[i].fn = "getDESCipherText" /\ calls[i].outcome.kind = "return")
                  => \A n \in BlockPrefixes(calls[i].input) :
                        calls[i].outcome.val
                            = binaryToHex(
                                EncryptedAlone(SubSeq(calls[i].input, 1, n), i)
                                  \o EncryptedAlone(SubSeq(calls[i].input, n + 1, Len(calls[i].input)),
                                                    i)).val
            /\ (/\ calls[i].fn = "getDESPlainText"
                /\ Len(calls[i].input) = 32
                /\ IsHex(calls[i].input))
                  => Let(<< DecryptedAlone(SubSeq(calls[i].input, 1, 16), i),
                            DecryptedAlone(SubSeq(calls[i].input, 17, 32), i) >>, LAMBDA alone :
                         /\ calls[i].outcome.kind = "return"
                         /\ calls[i].outcome.val = binaryToString(alone[1] \o alone[2])
                         /\ DecryptedAlone(SubSeq(calls[i].input, 17, 32)
                                             \o SubSeq(calls[i].input, 1, 16), i)
                              = alone[2] \o alone[1]
                         /\ SubSeq(calls[i].input, 1, 16) = SubSeq(calls[i].input, 17, 32)
                              => alone[1] = alone[2])

\* getDESPlainText has returned for a ciphertext of two equal blocks.
C17_Witness ==
    \E i \in CipherCalls :
        /\ calls[i].fn = "getDESPlainText"
        /\ calls[i].input = Repeat(70, 32)
        /\ IsAccepted(calls[i].key)
        /\ calls[i].outcome.kind = "return"
        /\ SubSeq(PlainBinary(calls[i].input, calls[i].key).val, 1, 64)
             = SubSeq(PlainBinary(calls[i].input, calls[i].key).val, 65, 128)

\* The input of a transform has not the length the transform is for.
HasWrongLength(c) ==
    \/ /\ c.fn = "rangeBits"
       /\ \E i \in 1..c.input[3] : c.input[2][i] > Len(c.input[1])
    \/ /\ c.fn = "xorBinaryStrings"
       /\ Len(c.input[1]) # c.input[3] \/ Len(c.input[2]) # c.input[3]
    \/ c.fn = "sBoxTransform" /\ Len(c.input[1]) # 48
    \/ c.fn = "generateSubKeys" /\ Len(c.input[1]) # 56

\* C18: rangeBits, xorBinaryStrings, sBoxTransform and generateSubKeys fail on an
\* input that has not the length they are for, and return nothing for it.
C18_WrongLengthFails ==
    \A i \in DOMAIN calls : HasWrongLength(calls[i]) => calls[i].outcome.kind = "throw"

\* C19: a call of getDESCipherText, getDESPlainText or getOutPutKeys writes
\* nothing to the console, key material least of all.
C19_NothingWritten == console = << >>

\* C20: the body of the decrypting block loop undoes that of the encrypting one
\* and the other way round, for every block and every sixteen round keys: after
\* the one and then the other with the same round keys the block is the one at
\* the start.
C20_BlockTransformsAreInverse ==
    (/\ Len(calls) = 2
     /\ calls[1].fn = "block"
     /\ calls[2].fn = "block"
     /\ calls[2].input = << calls[1].outcome.val, calls[1].input[2], Opposite(calls[1].input[3]) >>)
        => /\ calls[1].outcome.kind = "return"
           /\ calls[2].outcome.kind = "return"
           /\ calls[2].outcome.val = calls[1].input[1]
           /\ Len(calls[1].outcome.val) = 64

\* A block was decrypted with sixteen different round keys, the result is another
\* block, and it was encrypted again.
C20_Witness ==
    /\ Len(calls) = 2
    /\ calls[1].fn = "block"
    /\ calls[1].input[3] = "decrypt"
    /\ calls[1].input[2][1] # calls[1].input[2][2]
    /\ calls[1].outcome.val # calls[1].input[1]
    /\ calls[2].fn = "block"
    /\ calls[2].input[3] = "encrypt"
    /\ calls[2].outcome.kind = "return"

\* The text of the file recorded for a user; nothing when none is recorded.
RecordedText(user) ==
    IF userData[user].file = NoFile THEN << >> ELSE readAsText(userData[user].file)

\* C21: in the form, once every pending file read has completed, a user's
\* input is the content of the file recorded as that user's file: a read
\* that completes late, after a newer file was selected or after the file
\* was cleared with the X button, never overwrites the input with stale
\* content.  Stated for the step that ends the last pending read: after it
\* the input of the reader's user is the text of the file then recorded for
\* that user, and is empty when none is recorded.
C21_LateReadLeavesRecordedFile ==
    [][(readers # << >> /\ readers' = << >>) =>
            \A user \in {readers[1].user} : userData'[user].input = RecordedText(user)']_vars

=============================================================================
